---- MODULE Spec2Model ----
(***************************************************************************)
(* Zettel Presenter: the slide set (src/presenter/slideset.go).            *)
(*                                                                         *)
(* A slide set is built by AddSlide, closed under links by Completion and  *)
(* numbered for a renderer by Slides(role, offset).  Pointers are          *)
(* addresses: a *slide is an index into heap, a *slideInfo an index into   *)
(* the arena of the list that Slides builds, and 0 is nil.                 *)
(*                                                                         *)
(* The content source (the Zettelstore behind sGetZettel / getZettel) is   *)
(* the environment: a fetch either fails or answers; the answer for an     *)
(* identifier is chosen when it is first given and kept in store.          *)
(***************************************************************************)
EXTENDS Integers, Sequences, FiniteSets, TLC

\* ------------------------------------------------------------- bounds
NZid == 3
MaxSeq == 2
MaxCalls == 2
MaxOffset == 2
MaxErr == 1
MaxDoc == 7

\* ---------------------------------------------------------- constants
InvalidZID == 0
SlideRoleHandout == "handout"
SlideRoleShow == "show"
SyntaxMermaid == "mermaid"
ValueVisibilityPublic == "public"

\* Valid zettel identifiers (zid.IsValid()); InvalidZID and every other
\* string that is no identifier is 0.
Zid == 1..NZid
IsValid(zid) == zid \in Zid

\* ------------------------------------------------------- content trees
\* A node of the s-expression content: sym is the head symbol, sub the list
\* elements of the tail.  The fields a symbol does not use are 0 / "".
Node(sym, state, zid, level, title, syntax, sub) ==
    [sym |-> sym, state |-> state, zid |-> zid, level |-> level,
     title |-> title, syntax |-> syntax, sub |-> sub]
Text == Node("TEXT", "", 0, 0, 0, "", <<>>)
Para(sub) == Node("PARA", "", 0, 0, 0, "", sub)
LinkZettel(zid) == Node("LINK-ZETTEL", "", zid, 0, 0, "", <<>>)
Embed(state, zid, syntax) == Node("EMBED", state, zid, 0, 0, syntax, <<>>)
VerbatimEval(syntax) == Node("VERBATIM-EVAL", "", 0, 0, 0, syntax, <<>>)
\* title = 0: the heading has no inline title list
Heading(level, title, sub) == Node("HEADING", "", 0, level, title, "", sub)
\* an element of the block list that is no list headed by a symbol
Atom == Node("", "", 0, 0, 0, "", <<>>)

\* The calls visitContent makes, in the order it makes them.
Call(op, zid, syntax) == [op |-> op, zid |-> zid, syntax |-> syntax]

\* Faulty variant of visitElem: a list that is none of the known nodes is
\* not descended into.
visitElemFlat(o) ==
    IF o.sym = "VERBATIM-EVAL"
      THEN IF o.syntax = SyntaxMermaid THEN <<Call("mermaid", 0, "")>> ELSE <<>>
    ELSE IF o.sym = "LINK-ZETTEL"
      THEN IF IsValid(o.zid) THEN <<Call("zettel", o.zid, "")>> ELSE <<>>
    ELSE IF o.sym = "EMBED"
      THEN IF o.state = "ZETTEL" /\ IsValid(o.zid)
             THEN <<Call("image", o.zid, o.syntax)>> ELSE <<>>
    ELSE <<>>
RECURSIVE visitContent(_)
visitElem(o) ==
    IF o.sym = "" THEN <<>>
    ELSE IF o.sym \in {"TEXT", "SPACE"} THEN <<>>
    ELSE IF o.sym = "VERBATIM-EVAL"
      THEN IF o.syntax = SyntaxMermaid THEN <<Call("mermaid", 0, "")>> ELSE <<>>
    ELSE IF o.sym = "LINK-ZETTEL"
      THEN IF IsValid(o.zid) THEN <<Call("zettel", o.zid, "")>> ELSE <<>>
    ELSE IF o.sym = "EMBED"
      THEN IF o.state = "ZETTEL" /\ IsValid(o.zid)
             THEN <<Call("image", o.zid, o.syntax)>> ELSE <<>>
    ELSE visitContent(o.sub)
visitContent(content) ==
    IF content = <<>> THEN <<>>
    ELSE visitElem(Head(content)) \o visitContent(Tail(content))

\* What sz.GetMetaContent finds in a fetched zettel.  wellformed = FALSE:
\* metadata or content is missing.  Titles are tokens, 0 = no such key.
Zettel(wellformed, vis, role, slideTitle, title, lang, content) ==
    [wellformed |-> wellformed, vis |-> vis, role |-> role,
     slideTitle |-> slideTitle, title |-> title, lang |-> lang,
     content |-> content]

\* ------------------------------------------------- inputs of the model
\* Contents with links, embeds and diagram blocks.  Ring(z) links the
\* identifiers into a cycle (a self-link when there is one identifier), Fan
\* links to the last and the first identifier, twice to the last, and Deco
\* holds what visitContent must pass over.
Ring(z) == << Para(<<Text, LinkZettel((z % NZid) + 1)>>) >>
Fan == << Para(<<LinkZettel(NZid), LinkZettel(1), Embed("ZETTEL", NZid, "png")>>),
          VerbatimEval(SyntaxMermaid),
          Heading(1, 1, <<Text, LinkZettel(NZid)>>) >>
Deco == << VerbatimEval("dot"),
           Para(<<Embed("EXTERNAL", 0, "png"), Embed("ZETTEL", 0, "png"),
                  LinkZettel(0), Para(<<Embed("ZETTEL", 1, "svg")>>)>>),
           Heading(2, 1, <<Text, Embed("ZETTEL", 1, "png")>>) >>

\* What the content source may answer for zid: a public zettel, a zettel
\* whose visibility is missing or "owner", or one without metadata or content.
PublicContents(zid) ==
    IF zid = 1 THEN {Ring(zid), Fan}
    ELSE IF zid = NZid THEN {Ring(zid), Fan, Deco}
    ELSE {Ring(zid), Deco}
Hidden(zid) ==
    IF zid = NZid
      THEN {Zettel(TRUE, "", "", 0, 10, "", Fan),
            Zettel(TRUE, "", "", 0, 10, "", Deco),
            Zettel(TRUE, "owner", "", 0, 0, "", Fan),
            Zettel(FALSE, ValueVisibilityPublic, "", 0, 0, "", <<>>)}
      ELSE {}
Responses(zid) ==
    {Zettel(TRUE, ValueVisibilityPublic, "", 0, 10, "", c) : c \in PublicContents(zid)}
    \cup Hidden(zid)

\* Slides of every role, whose contents split into one, two or three
\* children.
NoHead == << Para(<<Text>>), Heading(2, 1, <<Text>>), Heading(1, 0, <<>>) >>
OneHead == << Para(<<Text>>), Heading(1, 1, <<Text>>), Para(<<Text>>) >>
TwoHeads == << Heading(1, 1, <<Text>>), Para(<<Text>>), Heading(3, 1, <<Text>>),
               Heading(1, 2, <<Text>>) >>
SlideResponses(zid) ==
    IF zid = 1
      THEN {Zettel(TRUE, ValueVisibilityPublic, r, 0, 10, "", c) :
              r \in {"", SlideRoleShow}, c \in {NoHead, TwoHeads}}
    ELSE IF zid = NZid
      THEN {Zettel(TRUE, ValueVisibilityPublic, r, 11, 10, "en", c) :
              r \in {"", SlideRoleHandout, "manual"}, c \in {NoHead, OneHead}}
    ELSE {Zettel(TRUE, ValueVisibilityPublic, r, 0, 0, "", c) :
              r \in {"", SlideRoleShow, SlideRoleHandout}, c \in {OneHead, TwoHeads}}

\* The end-to-end deck: the first zettel embeds an image and links to the
\* last zettel, which no zettel list names; the zettel between them have two
\* level-1 headings.
Linked == << Para(<<Text, Embed("ZETTEL", NZid, "png"), LinkZettel(NZid)>>),
             Heading(2, 1, <<Text>>) >>
Sections == << Para(<<Text>>), Heading(1, 1, <<Text>>), Para(<<Text>>),
               Heading(1, 2, <<Text>>), Para(<<Text>>) >>
ScenarioResponses(zid) ==
    IF zid = 1
      THEN {Zettel(TRUE, ValueVisibilityPublic, r, 0, 10, "", Linked) :
              r \in {"", SlideRoleShow}}
    ELSE IF zid = NZid
      THEN {Zettel(TRUE, ValueVisibilityPublic, r, 0, 10, "", << Para(<<Text>>) >>) :
              r \in {"", SlideRoleShow, SlideRoleHandout}}
    ELSE {Zettel(TRUE, ValueVisibilityPublic, r, 0, 10, "", c) :
              r \in {"", SlideRoleShow}, c \in {Sections, TwoHeads}}

\* --------------------------------------------------------------- state
VARIABLES
    heap,        \* the slide objects allocated so far; a *slide is an index
    seqSlide,    \* slideSet.seqSlide: sequence of *slide
    setSlide,    \* slideSet.setSlide: zid -> *slide
    setImage,    \* slideSet.setImage: zid -> image
    isCompleted, \* slideSet.isCompleted
    hasMermaid,  \* slideSet.hasMermaid
    pc,          \* "idle" between calls; "loop" / "visit" inside Completion
    stack,       \* collectEnv.stack
    visited,     \* collectEnv.visited
    ceMermaid,   \* collectEnv.hasMermaid
    todo,        \* the calls the running visitContent has still to make
    source,      \* content source: the family of zettel it holds
    store,       \* content source: the answer given for each identifier
    errZ,        \* identifiers for which sGetZettel has failed
    errI,        \* identifiers for which getZettel has failed
    failures,    \* number of fetches that have failed
    fetched,     \* number of sGetZettel calls per identifier
    imgFetched,  \* number of getZettel calls per identifier
    visits,      \* number of visitContent traversals per slide identifier
    explicit,    \* identifiers AddSlide has put into the set
    adds,        \* number of AddSlide calls
    lastAdd,     \* the identifier of the last AddSlide call
    calls,       \* number of Completion calls
    shown,       \* what the last Slides(role, offset) call returned
    found,       \* what the last FindSlide call on a node of shown returned
    asked,       \* what the last HasSlideRole call returned
    sxMeta,      \* slideSet.sxMeta: the metadata of the slide set zettel
    config,      \* the metadata of the configuration zettel
    got          \* what the last metadata accessor returned

setVars == <<heap, seqSlide, setSlide, setImage, isCompleted, hasMermaid>>
envVars == <<pc, stack, visited, ceMermaid, todo>>
srcVars == <<source, store, errZ, errI, failures, fetched, imgFetched>>
metaVars == <<sxMeta, config, got>>
vars == <<heap, seqSlide, setSlide, setImage, isCompleted, hasMermaid,
          pc, stack, visited, ceMermaid, todo,
          source, store, errZ, errI, failures, fetched, imgFetched,
          visits, explicit, adds, lastAdd, calls, shown, found, asked,
          sxMeta, config, got>>

NoResult == [role |-> "", offset |-> 0, nodes |-> <<>>, first |-> 0,
             again |-> FALSE]
NoFound == [from |-> 0, zid |-> InvalidZID, res |-> 0]
NoAnswer == [role |-> "", sr |-> "", res |-> FALSE, done |-> FALSE]
\* metadata without author, copyright and license; no accessor called yet
NoMeta == [author |-> "", copyright |-> "", license |-> ""]
NoValue == [key |-> "", value |-> ""]

\* newSlideSetMeta
Start(family) ==
    /\ source = family
    /\ heap = <<>>
    /\ seqSlide = <<>>
    /\ setSlide = <<>>
    /\ setImage = <<>>
    /\ isCompleted = FALSE
    /\ hasMermaid = FALSE
    /\ pc = "idle"
    /\ stack = <<>>
    /\ visited = {}
    /\ ceMermaid = FALSE
    /\ todo = <<>>
    /\ store = <<>>
    /\ errZ = {}
    /\ errI = {}
    /\ failures = 0
    /\ fetched = [z \in Zid |-> 0]
    /\ imgFetched = [z \in Zid |-> 0]
    /\ visits = [z \in Zid |-> 0]
    /\ explicit = {}
    /\ adds = 0
    /\ lastAdd = InvalidZID
    /\ calls = 0
    /\ shown = NoResult
    /\ found = NoFound
    /\ asked = NoAnswer
    /\ sxMeta = NoMeta
    /\ config = NoMeta
    /\ got = NoValue

\* ------------------------------------------------------ content source
\* The zettel the source holds for zid, by family.
Holds(zid) ==
    IF source = "deck" THEN SlideResponses(zid)
    ELSE IF source = "scenario" THEN ScenarioResponses(zid)
    ELSE Responses(zid)

\* The answers the source can give for zid: the one it gave before, else any
\* the source holds.
Answers(zid) == IF zid \in DOMAIN store THEN {store[zid]} ELSE Holds(zid)
Learn(zid, r) == IF zid \in DOMAIN store THEN store ELSE (zid :> r) @@ store
\* A fetch may fail: at most MaxErr fetches of a run do.
MayFail(zid) == failures < MaxErr
\* the raw bytes getZettel returns for an image zettel
Data(zid) == zid

\* ------------------------------------------------------------- slides
makeTitleZid(zid) == 20 + zid
getSlideTitle(m) ==
    IF m.slideTitle # 0 THEN m.slideTitle
    ELSE IF m.title # 0 THEN m.title
    ELSE 0
getSlideTitleZid(m, zid) ==
    IF getSlideTitle(m) # 0 THEN getSlideTitle(m) ELSE makeTitleZid(zid)
newSlide(zid, m) ==
    [zid |-> zid, title |-> getSlideTitleZid(m, zid), lang |-> m.lang,
     role |-> m.role, content |-> m.content]
\* Faulty variant of MakeChild: the child does not get the language.
MakeChildNoLang(sl, sxTitle, sxContent) ==
    [zid |-> sl.zid, title |-> sxTitle, lang |-> "", role |-> sl.role,
     content |-> sxContent]
MakeChild(sl, sxTitle, sxContent) ==
    [zid |-> sl.zid, title |-> sxTitle, lang |-> sl.lang, role |-> sl.role,
     content |-> sxContent]
\* Faulty variant of HasSlideRole: the comparison with the slide's role is
\* missing.
HasSlideRoleAny(sl, sr) == TRUE
\* Faulty variant of HasSlideRole: a slide without role has no role.
HasSlideRoleStrict(sl, sr) == sr = "" \/ sl.role = sr
HasSlideRole(sl, sr) ==
    IF sr = "" THEN TRUE
    ELSE IF sl.role = "" THEN TRUE
    ELSE sl.role = sr

GetSlide(zid) == IF zid \in DOMAIN setSlide THEN setSlide[zid] ELSE 0
SlideZids == [i \in 1..Len(seqSlide) |-> heap[seqSlide[i]].zid]
\* Faulty variant of HasImage: no image is ever found.
HasImageNever(zid) == FALSE
HasImage(zid) == zid \in DOMAIN setImage

\* ------------------------------------------------------------ AddSlide
\* Faulty variant of AddSlide: an identifier already in setSlide is fetched
\* and stored again.
AddSlideAgain ==
    /\ pc = "idle"
    /\ adds < MaxSeq
    /\ adds' = adds + 1
    /\ shown' = NoResult
    /\ found' = NoFound
    /\ asked' = NoAnswer
    /\ UNCHANGED metaVars
    /\ UNCHANGED <<setImage, isCompleted, hasMermaid, envVars, source, errI,
                   imgFetched, visits, calls>>
    /\ \E zid \in Zid :
         /\ lastAdd' = zid
         /\ fetched' = [fetched EXCEPT ![zid] = @ + 1]
         /\ \/ /\ MayFail(zid)
               /\ errZ' = errZ \cup {zid}
               /\ failures' = failures + 1
               /\ UNCHANGED <<heap, seqSlide, setSlide, store, explicit>>
            \/ \E r \in Answers(zid) :
                 /\ store' = Learn(zid, r)
                 /\ UNCHANGED <<errZ, failures>>
                 /\ IF ~r.wellformed
                      THEN UNCHANGED <<heap, seqSlide, setSlide, explicit>>
                      ELSE /\ heap' = Append(heap, newSlide(zid, r))
                           /\ seqSlide' = Append(seqSlide, Len(heap) + 1)
                           /\ setSlide' = (zid :> Len(heap) + 1) @@ setSlide
                           /\ explicit' = explicit \cup {zid}

\* Faulty variant of AddSlide: a zettel without metadata or content is made a
\* slide all the same.
AddSlidePlaceholder ==
    /\ pc = "idle"
    /\ adds < MaxSeq
    /\ adds' = adds + 1
    /\ shown' = NoResult
    /\ found' = NoFound
    /\ asked' = NoAnswer
    /\ UNCHANGED metaVars
    /\ UNCHANGED <<setImage, isCompleted, hasMermaid, envVars, source, errI,
                   imgFetched, visits, calls>>
    /\ \E zid \in Zid :
         /\ lastAdd' = zid
         /\ IF zid \in DOMAIN setSlide
           THEN /\ seqSlide' = Append(seqSlide, setSlide[zid])
                /\ UNCHANGED <<heap, setSlide, store, errZ, failures, fetched,
                               explicit>>
           ELSE /\ fetched' = [fetched EXCEPT ![zid] = @ + 1]
                /\ \/ \* sGetZettel returns an error
                      /\ MayFail(zid)
                      /\ errZ' = errZ \cup {zid}
                      /\ failures' = failures + 1
                      /\ UNCHANGED <<heap, seqSlide, setSlide, store, explicit>>
                   \/ \E r \in Answers(zid) :
                        /\ store' = Learn(zid, r)
                        /\ UNCHANGED <<errZ, failures>>
                        /\ IF FALSE
                             THEN UNCHANGED <<heap, seqSlide, setSlide, explicit>>
                             ELSE /\ heap' = Append(heap, newSlide(zid, r))
                                  /\ seqSlide' = Append(seqSlide, Len(heap) + 1)
                                  /\ setSlide' = (zid :> Len(heap) + 1) @@ setSlide
                                  /\ explicit' = explicit \cup {zid}

\* Faulty variant of AddSlide: for an identifier in setSlide a copy of the
\* slide is appended.
AddSlideCopy ==
    /\ pc = "idle"
    /\ adds < MaxSeq
    /\ adds' = adds + 1
    /\ shown' = NoResult
    /\ found' = NoFound
    /\ asked' = NoAnswer
    /\ UNCHANGED metaVars
    /\ UNCHANGED <<setImage, isCompleted, hasMermaid, envVars, source, errI,
                   imgFetched, visits, calls>>
    /\ \E zid \in Zid :
         /\ lastAdd' = zid
         /\ IF zid \in DOMAIN setSlide
           THEN /\ heap' = Append(heap, heap[setSlide[zid]])
                /\ seqSlide' = Append(seqSlide, Len(heap) + 1)
                /\ UNCHANGED <<setSlide, store, errZ, failures, fetched,
                               explicit>>
           ELSE /\ fetched' = [fetched EXCEPT ![zid] = @ + 1]
                /\ \/ \* sGetZettel returns an error
                      /\ MayFail(zid)
                      /\ errZ' = errZ \cup {zid}
                      /\ failures' = failures + 1
                      /\ UNCHANGED <<heap, seqSlide, setSlide, store, explicit>>
                   \/ \E r \in Answers(zid) :
                        /\ store' = Learn(zid, r)
                        /\ UNCHANGED <<errZ, failures>>
                        /\ IF ~r.wellformed
                             THEN UNCHANGED <<heap, seqSlide, setSlide, explicit>>
                             ELSE /\ heap' = Append(heap, newSlide(zid, r))
                                  /\ seqSlide' = Append(seqSlide, Len(heap) + 1)
                                  /\ setSlide' = (zid :> Len(heap) + 1) @@ setSlide
                                  /\ explicit' = explicit \cup {zid}

\* Faulty variant of AddSlide: the zettel is fetched before setSlide is
\* looked at.
AddSlideFetchFirst ==
    /\ pc = "idle"
    /\ adds < MaxSeq
    /\ adds' = adds + 1
    /\ shown' = NoResult
    /\ found' = NoFound
    /\ asked' = NoAnswer
    /\ UNCHANGED metaVars
    /\ UNCHANGED <<setImage, isCompleted, hasMermaid, envVars, source, errI,
                   imgFetched, visits, calls>>
    /\ \E zid \in Zid :
         /\ lastAdd' = zid
         /\ IF zid \in DOMAIN setSlide
           THEN /\ seqSlide' = Append(seqSlide, setSlide[zid])
                /\ fetched' = [fetched EXCEPT ![zid] = @ + 1]
                /\ UNCHANGED <<heap, setSlide, store, errZ, failures, explicit>>
           ELSE /\ fetched' = [fetched EXCEPT ![zid] = @ + 1]
                /\ \/ \* sGetZettel returns an error
                      /\ MayFail(zid)
                      /\ errZ' = errZ \cup {zid}
                      /\ failures' = failures + 1
                      /\ UNCHANGED <<heap, seqSlide, setSlide, store, explicit>>
                   \/ \E r \in Answers(zid) :
                        /\ store' = Learn(zid, r)
                        /\ UNCHANGED <<errZ, failures>>
                        /\ IF ~r.wellformed
                             THEN UNCHANGED <<heap, seqSlide, setSlide, explicit>>
                             ELSE /\ heap' = Append(heap, newSlide(zid, r))
                                  /\ seqSlide' = Append(seqSlide, Len(heap) + 1)
                                  /\ setSlide' = (zid :> Len(heap) + 1) @@ setSlide
                                  /\ explicit' = explicit \cup {zid}

AddSlide ==
    /\ pc = "idle"
    /\ adds < MaxSeq
    /\ adds' = adds + 1
    /\ shown' = NoResult
    /\ found' = NoFound
    /\ asked' = NoAnswer
    /\ UNCHANGED metaVars
    /\ UNCHANGED <<setImage, isCompleted, hasMermaid, envVars, source, errI,
                   imgFetched, visits, calls>>
    /\ \E zid \in Zid :
         /\ lastAdd' = zid
         /\ IF zid \in DOMAIN setSlide
           THEN /\ seqSlide' = Append(seqSlide, setSlide[zid])
                /\ UNCHANGED <<heap, setSlide, store, errZ, failures, fetched,
                               explicit>>
           ELSE /\ fetched' = [fetched EXCEPT ![zid] = @ + 1]
                /\ \/ \* sGetZettel returns an error
                      /\ MayFail(zid)
                      /\ errZ' = errZ \cup {zid}
                      /\ failures' = failures + 1
                      /\ UNCHANGED <<heap, seqSlide, setSlide, store, explicit>>
                   \/ \E r \in Answers(zid) :
                        /\ store' = Learn(zid, r)
                        /\ UNCHANGED <<errZ, failures>>
                        /\ IF ~r.wellformed
                             THEN UNCHANGED <<heap, seqSlide, setSlide, explicit>>
                             ELSE /\ heap' = Append(heap, newSlide(zid, r))
                                  /\ seqSlide' = Append(seqSlide, Len(heap) + 1)
                                  /\ setSlide' = (zid :> Len(heap) + 1) @@ setSlide
                                  /\ explicit' = explicit \cup {zid}

\* ---------------------------------------------------------- Completion
RECURSIVE Reverse(_)
Reverse(s) == IF s = <<>> THEN <<>> ELSE Reverse(Tail(s)) \o <<Head(s)>>
\* Faulty variant of push: the identifier after zid is pushed.
pushNext(stk, zid) == Append(stk, (zid % NZid) + 1)
push(stk, zid) == Append(stk, zid)
\* Faulty variant of initCollection: zids[0], ..., zids[len-1] are pushed.
initCollectionForward(zids) == zids
\* initCollection pushes zids[len-1], ..., zids[0]
initCollection(zids) == Reverse(zids)
\* Faulty variant of pop: an identifier already visited is handed out again.
popVisitedToo(stk, vis) ==
    IF Len(stk) = 0 THEN [zid |-> InvalidZID, found |-> FALSE, stack |-> stk]
    ELSE [zid |-> stk[Len(stk)], found |-> TRUE,
          stack |-> SubSeq(stk, 1, Len(stk) - 1)]
pop(stk, vis) ==
    IF Len(stk) = 0 THEN [zid |-> InvalidZID, found |-> FALSE, stack |-> stk]
    ELSE LET zid == stk[Len(stk)]
         IN  [zid |-> IF zid \in vis THEN InvalidZID ELSE zid,
              found |-> TRUE,
              stack |-> SubSeq(stk, 1, Len(stk) - 1)]
isMarked(zid) == zid \in visited
\* the traversal goes back to the loop once visitContent has made its last call
After(rest) == IF rest = <<>> THEN "loop" ELSE "visit"

\* Faulty variant of Completion: the isCompleted guard is missing.
CompletionUnguarded ==
    /\ pc = "idle"
    /\ calls < MaxCalls
    /\ calls' = calls + 1
    /\ shown' = NoResult
    /\ found' = NoFound
    /\ asked' = NoAnswer
    /\ UNCHANGED metaVars
    /\ UNCHANGED <<setVars, srcVars, visits, explicit, adds, lastAdd, todo>>
    /\ stack' = initCollection(SlideZids)
    /\ visited' = {}
    /\ ceMermaid' = FALSE
    /\ pc' = "loop"

\* the call, its guard and initCollection
Completion ==
    /\ pc = "idle"
    /\ calls < MaxCalls
    /\ calls' = calls + 1
    /\ shown' = NoResult
    /\ found' = NoFound
    /\ asked' = NoAnswer
    /\ UNCHANGED metaVars
    /\ UNCHANGED <<setVars, srcVars, visits, explicit, adds, lastAdd, todo>>
    /\ IF isCompleted
         THEN UNCHANGED <<pc, stack, visited, ceMermaid>>
         ELSE /\ stack' = initCollection(SlideZids)
              /\ visited' = {}
              /\ ceMermaid' = FALSE
              /\ pc' = "loop"

\* one iteration of the loop up to the call of visitContent, or its exit
CompletionLoop ==
    /\ pc = "loop"
    /\ UNCHANGED <<heap, seqSlide, setSlide, setImage, srcVars, explicit,
                   adds, lastAdd, calls, shown, found, asked, ceMermaid,
                   metaVars>>
    /\ LET p == pop(stack, visited) IN
         IF ~p.found
           THEN /\ hasMermaid' = ceMermaid
                /\ isCompleted' = TRUE
                /\ pc' = "idle"
                /\ stack' = <<>>
                /\ visited' = {}
                /\ UNCHANGED <<todo, visits>>
         ELSE IF p.zid = InvalidZID
           THEN /\ stack' = p.stack
                /\ UNCHANGED <<hasMermaid, isCompleted, pc, visited, todo, visits>>
         ELSE IF GetSlide(p.zid) = 0
           THEN /\ pc' = "panic"
                /\ stack' = p.stack
                /\ UNCHANGED <<hasMermaid, isCompleted, visited, todo, visits>>
         ELSE /\ stack' = p.stack
              /\ visited' = visited \cup {p.zid}
              /\ todo' = visitContent(heap[GetSlide(p.zid)].content)
              /\ pc' = After(todo')
              /\ visits' = [visits EXCEPT ![p.zid] = @ + 1]
              /\ UNCHANGED <<hasMermaid, isCompleted>>

\* Faulty variant of AdditionalSlide: the slide is put in front of the
\* sequence.
AdditionalSlideInFront(seq, sl) == <<sl>> \o seq
\* s.seqSlide = append(s.seqSlide, sl)
AdditionalSlide(seq, sl) == Append(seq, sl)

\* Faulty variant of the visibility test: every zettel passes.
IsPublicAlways(m) == TRUE
\* Faulty variant of the visibility test: a zettel without visibility passes.
IsPublicOrUnset(m) == m.vis \in {ValueVisibilityPublic, ""}
IsPublic(m) == m.vis = ValueVisibilityPublic

\* Faulty variant of visitZettel: only the visited mark keeps a link from
\* being fetched, a slide of the set does not.
visitZettelRefetch ==
    /\ pc = "visit"
    /\ Head(todo).op = "zettel"
    /\ todo' = Tail(todo)
    /\ pc' = After(todo')
    /\ UNCHANGED <<setImage, isCompleted, hasMermaid, visited, ceMermaid,
                   source, errI, imgFetched, visits, explicit, adds, lastAdd,
                   calls, shown, found, asked, metaVars>>
    /\ LET zid == Head(todo).zid IN
         IF isMarked(zid)
           THEN UNCHANGED <<heap, seqSlide, setSlide, stack, store, errZ,
                           failures, fetched>>
           ELSE /\ fetched' = [fetched EXCEPT ![zid] = @ + 1]
                /\ \/ \* sGetZettel returns an error
                      /\ MayFail(zid)
                      /\ errZ' = errZ \cup {zid}
                      /\ failures' = failures + 1
                      /\ UNCHANGED <<heap, seqSlide, setSlide, stack, store>>
                   \/ \E r \in Answers(zid) :
                        /\ store' = Learn(zid, r)
                        /\ UNCHANGED <<errZ, failures>>
                        /\ IF ~r.wellformed \/ ~IsPublic(r)
                             THEN UNCHANGED <<heap, seqSlide, setSlide, stack>>
                             ELSE \* AdditionalSlide, push
                                  /\ heap' = Append(heap, newSlide(zid, r))
                                  /\ seqSlide' = AdditionalSlide(seqSlide, Len(heap) + 1)
                                  /\ setSlide' = (zid :> Len(heap) + 1) @@ setSlide
                                  /\ stack' = push(stack, zid)

visitZettel ==
    /\ pc = "visit"
    /\ Head(todo).op = "zettel"
    /\ todo' = Tail(todo)
    /\ pc' = After(todo')
    /\ UNCHANGED <<setImage, isCompleted, hasMermaid, visited, ceMermaid,
                   source, errI, imgFetched, visits, explicit, adds, lastAdd,
                   calls, shown, found, asked, metaVars>>
    /\ LET zid == Head(todo).zid IN
         IF isMarked(zid) \/ GetSlide(zid) # 0
           THEN UNCHANGED <<heap, seqSlide, setSlide, stack, store, errZ,
                           failures, fetched>>
           ELSE /\ fetched' = [fetched EXCEPT ![zid] = @ + 1]
                /\ \/ \* sGetZettel returns an error
                      /\ MayFail(zid)
                      /\ errZ' = errZ \cup {zid}
                      /\ failures' = failures + 1
                      /\ UNCHANGED <<heap, seqSlide, setSlide, stack, store>>
                   \/ \E r \in Answers(zid) :
                        /\ store' = Learn(zid, r)
                        /\ UNCHANGED <<errZ, failures>>
                        /\ IF ~r.wellformed \/ ~IsPublic(r)
                             THEN UNCHANGED <<heap, seqSlide, setSlide, stack>>
                             ELSE \* AdditionalSlide, push
                                  /\ heap' = Append(heap, newSlide(zid, r))
                                  /\ seqSlide' = AdditionalSlide(seqSlide, Len(heap) + 1)
                                  /\ setSlide' = (zid :> Len(heap) + 1) @@ setSlide
                                  /\ stack' = push(stack, zid)

\* Faulty variant of visitImage: a failed getZettel ends Completion.
visitImageAbort ==
    /\ pc = "visit"
    /\ Head(todo).op = "image"
    /\ UNCHANGED <<heap, seqSlide, setSlide, isCompleted, hasMermaid,
                   visited, ceMermaid, source, store, errZ, fetched, visits,
                   explicit, adds, lastAdd, calls, shown, found, asked, metaVars>>
    /\ LET zid == Head(todo).zid IN
         IF HasImage(zid)
           THEN /\ todo' = Tail(todo)
                /\ pc' = After(todo')
                /\ UNCHANGED <<setImage, errI, failures, imgFetched, stack>>
           ELSE /\ imgFetched' = [imgFetched EXCEPT ![zid] = @ + 1]
                /\ \/ /\ MayFail(zid)
                      /\ errI' = errI \cup {zid}
                      /\ failures' = failures + 1
                      /\ todo' = <<>>
                      /\ stack' = <<>>
                      /\ pc' = "idle"
                      /\ UNCHANGED setImage
                   \/ /\ setImage' = (zid :> [syntax |-> Head(todo).syntax,
                                              data |-> Data(zid)]) @@ setImage
                      /\ todo' = Tail(todo)
                      /\ pc' = After(todo')
                      /\ UNCHANGED <<errI, failures, stack>>

visitImage ==
    /\ pc = "visit"
    /\ Head(todo).op = "image"
    /\ todo' = Tail(todo)
    /\ pc' = After(todo')
    /\ UNCHANGED <<heap, seqSlide, setSlide, isCompleted, hasMermaid, stack,
                   visited, ceMermaid, source, store, errZ, fetched, visits,
                   explicit, adds, lastAdd, calls, shown, found, asked, metaVars>>
    /\ LET zid == Head(todo).zid IN
         IF HasImage(zid)
           THEN UNCHANGED <<setImage, errI, failures, imgFetched>>
           ELSE /\ imgFetched' = [imgFetched EXCEPT ![zid] = @ + 1]
                /\ \/ \* getZettel returns an error
                      /\ MayFail(zid)
                      /\ errI' = errI \cup {zid}
                      /\ failures' = failures + 1
                      /\ UNCHANGED setImage
                   \/ \* AddImage
                      /\ setImage' = (zid :> [syntax |-> Head(todo).syntax,
                                              data |-> Data(zid)]) @@ setImage
                      /\ UNCHANGED <<errI, failures>>

\* Faulty variant of visitMermaid: the flag is not set.
visitMermaidLost ==
    /\ pc = "visit"
    /\ Head(todo).op = "mermaid"
    /\ todo' = Tail(todo)
    /\ pc' = After(todo')
    /\ UNCHANGED <<setVars, stack, visited, ceMermaid, srcVars, visits,
                   explicit, adds, lastAdd, calls, shown, found, asked, metaVars>>
\* visitContent meets a VERBATIM-EVAL block with the mermaid attribute
visitMermaid ==
    /\ pc = "visit"
    /\ Head(todo).op = "mermaid"
    /\ todo' = Tail(todo)
    /\ pc' = After(todo')
    /\ ceMermaid' = TRUE
    /\ UNCHANGED <<setVars, stack, visited, srcVars, visits, explicit, adds,
                   lastAdd, calls, shown, found, asked, metaVars>>

\* ------------------------------------------- Completion as a function
\* Completion on a slide set whose seqSlide holds the identifiers zids, with
\* a content source that answers every fetch, for identifier z with S[z].
\* ok is FALSE when the run asks for an identifier S has no answer for, or
\* pops an identifier without slide.
RECURSIVE runVisit(_, _, _)
runVisit(S, cs, st) ==
    IF cs = <<>> THEN st
    ELSE LET c == Head(cs) IN
      IF c.op = "mermaid"
        THEN runVisit(S, Tail(cs), [st EXCEPT !.mermaid = TRUE])
      ELSE IF c.op = "image"
        THEN IF c.zid \in DOMAIN st.images THEN runVisit(S, Tail(cs), st)
             ELSE runVisit(S, Tail(cs),
                    [st EXCEPT !.images = (c.zid :> [syntax |-> c.syntax,
                                                     data |-> Data(c.zid)]) @@ @])
      ELSE IF c.zid \in st.visited \/ c.zid \in st.slides
        THEN runVisit(S, Tail(cs), st)
      ELSE IF c.zid \notin DOMAIN S
        THEN [st EXCEPT !.ok = FALSE]
      ELSE IF ~S[c.zid].wellformed \/ ~IsPublic(S[c.zid])
        THEN runVisit(S, Tail(cs), st)
      ELSE runVisit(S, Tail(cs),
             [st EXCEPT !.seq = Append(@, c.zid),
                        !.slides = @ \cup {c.zid},
                        !.stack = push(@, c.zid)])
RECURSIVE runLoop(_, _)
runLoop(S, st) ==
    LET p == pop(st.stack, st.visited) IN
      IF ~p.found THEN st
      ELSE IF p.zid = InvalidZID THEN runLoop(S, [st EXCEPT !.stack = p.stack])
      ELSE IF p.zid \notin st.slides \/ p.zid \notin DOMAIN S
        THEN [st EXCEPT !.ok = FALSE]
      ELSE runLoop(S, runVisit(S, visitContent(S[p.zid].content),
                               [st EXCEPT !.stack = p.stack,
                                          !.visited = @ \cup {p.zid}]))
CompletionRun(S, zids) ==
    runLoop(S, [seq |-> zids, slides |-> {zids[i] : i \in 1..Len(zids)},
                images |-> <<>>, mermaid |-> FALSE,
                stack |-> initCollection(zids), visited |-> {}, ok |-> TRUE])

\* -------------------------------------------------------------- Slides
\* Faulty variant of newInfo: prev is left nil.
newInfoNoPrev(prev, sl) ==
    [prev |-> 0, Slide |-> sl, Number |-> 0, SlideNo |-> 0,
     oldest |-> 0, youngest |-> 0, next |-> 0]
\* A slideInfo; prev, next, oldest and youngest are indices into the arena
\* of the list under construction.
newInfo(prev, sl) ==
    [prev |-> prev, Slide |-> sl, Number |-> 0, SlideNo |-> 0,
     oldest |-> 0, youngest |-> 0, next |-> 0]
\* append a slideInfo whose prev is youngest, and link youngest to it
appendChild(nodes, youngest, sl) ==
    Append(IF youngest # 0 THEN [nodes EXCEPT ![youngest].next = Len(nodes) + 1]
                           ELSE nodes,
           newInfo(youngest, sl))

\* Faulty variant of splitLoop: a heading of any level splits.
RECURSIVE splitLoopAnyLevel(_, _, _)
splitLoopAnyLevel(blocks, sl, st) ==
    IF blocks = <<>> THEN st
    ELSE LET bn == Head(blocks) IN
      IF bn.sym = "" THEN st
      ELSE IF bn.sym # "HEADING" \/ bn.title = 0
        THEN splitLoopAnyLevel(Tail(blocks), sl, [st EXCEPT !.content = Append(@, bn)])
      ELSE splitLoopAnyLevel(Tail(blocks), sl,
             [nodes |-> appendChild(st.nodes, st.youngest,
                                    MakeChild(sl, st.title, st.content)),
              oldest |-> IF st.oldest = 0 THEN Len(st.nodes) + 1 ELSE st.oldest,
              youngest |-> Len(st.nodes) + 1,
              title |-> bn.title,
              content |-> <<>>])
\* the loop of SplitChildren over the blocks of the content
RECURSIVE splitLoop(_, _, _)
splitLoop(blocks, sl, st) ==
    IF blocks = <<>> THEN st
    ELSE LET bn == Head(blocks) IN
      IF bn.sym = "" THEN st
      ELSE IF bn.sym # "HEADING" \/ bn.level # 1 \/ bn.title = 0
        THEN splitLoop(Tail(blocks), sl, [st EXCEPT !.content = Append(@, bn)])
      ELSE splitLoop(Tail(blocks), sl,
             [nodes |-> appendChild(st.nodes, st.youngest,
                                    MakeChild(sl, st.title, st.content)),
              oldest |-> IF st.oldest = 0 THEN Len(st.nodes) + 1 ELSE st.oldest,
              youngest |-> Len(st.nodes) + 1,
              title |-> bn.title,
              content |-> <<>>])

\* Faulty variant of SplitChildren: after a split the blocks behind the last
\* heading are not made a child.
SplitChildrenNoTail(nodes, si) ==
    LET sl == nodes[si].Slide
        st == splitLoop(sl.content, sl,
                        [nodes |-> nodes, oldest |-> 0, youngest |-> 0,
                         title |-> sl.title, content |-> <<>>])
        all == appendChild(st.nodes, st.youngest,
                           MakeChild(sl, st.title, st.content))
    IN  IF st.oldest = 0
          THEN [all EXCEPT ![si].oldest = Len(all), ![si].youngest = Len(all)]
          ELSE [st.nodes EXCEPT ![si].oldest = st.oldest,
                                ![si].youngest = st.youngest]
SplitChildren(nodes, si) ==
    LET sl == nodes[si].Slide
        st == splitLoop(sl.content, sl,
                        [nodes |-> nodes, oldest |-> 0, youngest |-> 0,
                         title |-> sl.title, content |-> <<>>])
        all == appendChild(st.nodes, st.youngest,
                           MakeChild(sl, st.title, st.content))
    IN  [all EXCEPT ![si].oldest = IF st.oldest = 0 THEN Len(all) ELSE st.oldest,
                    ![si].youngest = Len(all)]

\* Faulty variant of numberSubs: the counter is advanced twice for each
\* further child.
RECURSIVE numberSubsGap(_, _, _, _)
numberSubsGap(nodes, sub, slideNo, withNumber) ==
    IF sub = 0 THEN [nodes |-> nodes, slideNo |-> slideNo]
    ELSE numberSubsGap([nodes EXCEPT ![sub].SlideNo = slideNo + 2,
                                     ![sub].Number = IF withNumber THEN slideNo + 2 ELSE @],
                       nodes[sub].next, slideNo + 2, withNumber)
\* for sub := main.Next(); sub != nil; sub = sub.Next() { slideNo++; ... }
RECURSIVE numberSubs(_, _, _, _)
numberSubs(nodes, sub, slideNo, withNumber) ==
    IF sub = 0 THEN [nodes |-> nodes, slideNo |-> slideNo]
    ELSE numberSubs([nodes EXCEPT ![sub].SlideNo = slideNo + 1,
                                  ![sub].Number = IF withNumber THEN slideNo + 1 ELSE @],
                    nodes[sub].next, slideNo + 1, withNumber)

\* Faulty variant of numberChildren: the counter is advanced before the first
\* child is numbered.
numberChildrenEarly(nodes, si, slideNo, withNumber) ==
    LET split == SplitChildren(nodes, si)
        main == split[si].oldest
        first == [split EXCEPT ![main].SlideNo = slideNo + 1,
                               ![main].Number = IF withNumber THEN slideNo + 1 ELSE @]
        r == numberSubs(first, first[main].next, slideNo + 1, withNumber)
    IN  [nodes |-> r.nodes, slideNo |-> r.slideNo + 1]
\* SplitChildren and the numbering of the children; slideNo ends one past
\* the last child
numberChildren(nodes, si, slideNo, withNumber) ==
    LET split == SplitChildren(nodes, si)
        main == split[si].oldest
        first == [split EXCEPT ![main].SlideNo = slideNo,
                               ![main].Number = IF withNumber THEN slideNo ELSE @]
        r == numberSubs(first, first[main].next, slideNo, withNumber)
    IN  [nodes |-> r.nodes, slideNo |-> r.slideNo + 1]
\* Faulty variant of addChildrenForHandout: the counter is advanced by one
\* for the slide, not by one for each child.
addChildrenForHandoutFlat(nodes, si, slideNo) ==
    [nodes |-> numberChildren(nodes, si, slideNo, FALSE).nodes,
     slideNo |-> slideNo + 1]
addChildrenForHandout(nodes, si, slideNo) == numberChildren(nodes, si, slideNo, FALSE)

\* link the slideInfo at index si behind prev
linkInfo(st, si) ==
    [st EXCEPT !.first = IF @ = 0 THEN si ELSE @,
               !.nodes = IF st.prev # 0 THEN [@ EXCEPT ![st.prev].next = si] ELSE @,
               !.prev = si]

RECURSIVE showLoop(_, _, _)
showLoop(slides, i, st) ==
    IF i > Len(slides) THEN st
    ELSE IF ~HasSlideRole(slides[i], SlideRoleShow) THEN showLoop(slides, i + 1, st)
    ELSE LET si == Len(st.nodes) + 1
             made == [st EXCEPT !.nodes =
                        Append(@, [newInfo(st.prev, slides[i])
                                     EXCEPT !.SlideNo = st.slideNo,
                                            !.Number = st.slideNo])]
             linked == linkInfo(made, si)
             r == numberChildren(linked.nodes, si, st.slideNo, TRUE)
         IN  showLoop(slides, i + 1,
                      [linked EXCEPT !.nodes = r.nodes, !.slideNo = r.slideNo])
\* Faulty variant of slidesforShow: only slides whose role is "show" are
\* taken.
slidesforShowRoleOnly(slides, offset) ==
    showLoop(SelectSeq(slides, LAMBDA sl : sl.role = SlideRoleShow), 1,
             [nodes |-> <<>>, first |-> 0, prev |-> 0,
              number |-> offset, slideNo |-> offset])
slidesforShow(slides, offset) ==
    showLoop(slides, 1, [nodes |-> <<>>, first |-> 0, prev |-> 0,
                         number |-> offset, slideNo |-> offset])

RECURSIVE handoutLoop(_, _, _)
handoutLoop(slides, i, st) ==
    IF i > Len(slides) THEN st
    ELSE LET sl == slides[i]
             si == Len(st.nodes) + 1
             made == [st EXCEPT !.nodes = Append(@, newInfo(st.prev, sl))]
         IN
      IF ~HasSlideRole(sl, SlideRoleHandout)
        THEN IF HasSlideRole(sl, SlideRoleShow)
               THEN LET r == addChildrenForHandout(made.nodes, si, st.slideNo)
                    IN  handoutLoop(slides, i + 1,
                          [made EXCEPT !.nodes = r.nodes, !.slideNo = r.slideNo])
               ELSE handoutLoop(slides, i + 1, made)
      ELSE LET shown1 ==
                 IF HasSlideRole(sl, SlideRoleShow)
                   THEN LET r == addChildrenForHandout(
                                   [made.nodes EXCEPT ![si].SlideNo = st.slideNo],
                                   si, st.slideNo)
                        IN  [made EXCEPT !.nodes = r.nodes, !.slideNo = r.slideNo]
                   ELSE made
               linked == linkInfo(shown1, si)
           IN  handoutLoop(slides, i + 1,
                 [linked EXCEPT !.nodes[si].Number = st.number,
                                !.number = st.number + 1])
\* Faulty variant of slidesForHandout: the numbering starts at 1, whatever
\* the offset.
slidesForHandoutFromOne(slides, offset) ==
    handoutLoop(slides, 1, [nodes |-> <<>>, first |-> 0, prev |-> 0,
                            number |-> 1, slideNo |-> offset])
slidesForHandout(slides, offset) ==
    handoutLoop(slides, 1, [nodes |-> <<>>, first |-> 0, prev |-> 0,
                            number |-> offset, slideNo |-> offset])

\* the slides of seqSlide, in order
SeqSlides == [i \in 1..Len(seqSlide) |-> heap[seqSlide[i]]]

\* Faulty variant of SlidesCall: the numbering of a repeated call goes on
\* where the previous call ended.
SlidesCallContinued(again) ==
    /\ pc = "idle"
    /\ again => shown.role # ""
    /\ \E role \in IF again THEN {shown.role} ELSE {SlideRoleShow, SlideRoleHandout},
          offset \in IF again THEN {shown.offset} ELSE 1..MaxOffset :
         LET from == IF again THEN offset + Len(shown.nodes) ELSE offset
             r == IF role = SlideRoleShow THEN slidesforShow(SeqSlides, from)
                  ELSE slidesForHandout(SeqSlides, from)
         IN  shown' = [role |-> role, offset |-> offset,
                       nodes |-> r.nodes, first |-> r.first, again |-> again]
    /\ found' = NoFound
    /\ UNCHANGED <<setVars, envVars, srcVars, visits, explicit, adds, lastAdd,
                   calls, asked, metaVars>>
\* A call of Slides.  With again, it is a further call with the role and the
\* offset of the previous one: the table of contents and the show are
\* rendered from separate calls.
SlidesCall(again) ==
    /\ pc = "idle"
    /\ again => shown.role # ""
    /\ \E role \in IF again THEN {shown.role} ELSE {SlideRoleShow, SlideRoleHandout},
          offset \in IF again THEN {shown.offset} ELSE 1..MaxOffset :
         LET r == IF role = SlideRoleShow THEN slidesforShow(SeqSlides, offset)
                  ELSE slidesForHandout(SeqSlides, offset)
         IN  shown' = [role |-> role, offset |-> offset,
                       nodes |-> r.nodes, first |-> r.first, again |-> again]
    /\ found' = NoFound
    /\ UNCHANGED <<setVars, envVars, srcVars, visits, explicit, adds, lastAdd,
                   calls, asked, metaVars>>
Slides == SlidesCall(FALSE)

\* ----------------------------------------------------------- FindSlide
RECURSIVE searchBackward(_, _, _)
searchBackward(nodes, res, zid) ==
    IF res = 0 THEN 0
    ELSE IF nodes[res].Slide.zid = zid THEN res
    ELSE searchBackward(nodes, nodes[res].prev, zid)
RECURSIVE searchForward(_, _, _)
searchForward(nodes, res, zid) ==
    IF res = 0 THEN 0
    ELSE IF nodes[res].Slide.zid = zid THEN res
    ELSE searchForward(nodes, nodes[res].next, zid)
\* Faulty variant of FindSlide: the forward search comes first.
FindSlideForwardFirst(nodes, si, zid) ==
    IF si = 0 THEN 0
    ELSE IF searchForward(nodes, nodes[si].next, zid) # 0
      THEN searchForward(nodes, nodes[si].next, zid)
    ELSE searchBackward(nodes, si, zid)
FindSlide(nodes, si, zid) ==
    IF si = 0 THEN 0
    ELSE IF searchBackward(nodes, si, zid) # 0
      THEN searchBackward(nodes, si, zid)
    ELSE searchForward(nodes, nodes[si].next, zid)

\* for si := first; si != nil; si = si.Next(): the slideInfo indices from n
RECURSIVE Chain(_, _)
Chain(nodes, n) == IF n = 0 THEN <<>> ELSE <<n>> \o Chain(nodes, nodes[n].next)
\* the document sequence of the last Slides call
Top == Chain(shown.nodes, shown.first)

\* the identifiers of the zettel list the renderer is given
DocZids == {1, 2}
\* the targets a link of a slide may have: a slide, no identifier, or an
\* identifier that is no slide
LinkTargets == DocZids \cup {InvalidZID, NZid}
\* The renderer walks the document sequence, sets each node as the current
\* slide and, for a link to a zettel in it, asks FindSlide for the target.
rebindLinkZettel ==
    /\ pc = "idle"
    /\ shown.first # 0
    /\ LET top == Top
           cur == IF found.from = 0 THEN 1
                  ELSE CHOOSE j \in 1..Len(top) : top[j] = found.from
       IN  \E j \in cur..Len(top), zid \in LinkTargets :
             found' = [from |-> top[j], zid |-> zid,
                       res |-> FindSlide(shown.nodes, top[j], zid)]
    /\ UNCHANGED <<setVars, envVars, srcVars, visits, explicit, adds, lastAdd,
                   calls, shown, asked, metaVars>>

Next ==
    \/ AddSlide
    \/ Completion
    \/ CompletionLoop
    \/ visitZettel
    \/ visitImage
    \/ visitMermaid

Init == Start("linked")
Spec == Init /\ [][Next]_vars

\* Completion is a synchronous loop: once called it runs until it returns.
CompletionStep == CompletionLoop \/ visitZettel \/ visitImage \/ visitMermaid
FairSpec == Spec /\ WF_vars(CompletionStep)

\* The renderers' use of a slide set: AddSlide, then Slides.
NextSlides ==
    \/ AddSlide
    \/ Slides
InitSlides == Start("deck")
SpecSlides == InitSlides /\ [][NextSlides]_vars

\* A request for a slide show or a handout: AddSlide for the zettel of the
\* list, Completion, then Slides.
NextShow ==
    \/ AddSlide
    \/ Completion
    \/ CompletionLoop
    \/ visitZettel
    \/ visitImage
    \/ Slides
InitShow == Start("scenario")
SpecShow == InitShow /\ [][NextShow]_vars

\* a slide set is built and completed, and its slide sequence is requested
\* and requested again
NextTwice ==
    \/ AddSlide
    \/ Completion
    \/ CompletionLoop
    \/ visitZettel
    \/ visitImage
    \/ visitMermaid
    \/ isCompleted /\ \E again \in BOOLEAN : SlidesCall(again)
InitTwice == Start("linked")
SpecTwice == InitTwice /\ [][NextTwice]_vars

\* the roles HasSlideRole is asked for: none, the two of the renderers and
\* one that is no slide role
Targets == {"", SlideRoleShow, SlideRoleHandout, "manual"}
\* a call of HasSlideRole on a slide of the set
AskSlideRole ==
    /\ pc = "idle"
    /\ \E p \in 1..Len(heap), sr \in Targets :
         asked' = [role |-> heap[p].role, sr |-> sr,
                   res |-> HasSlideRole(heap[p], sr), done |-> TRUE]
    /\ UNCHANGED <<setVars, envVars, srcVars, visits, explicit, adds, lastAdd,
                   calls, shown, found, metaVars>>
NextRole ==
    \/ AddSlide
    \/ AskSlideRole
InitRole == Start("deck")
SpecRole == InitRole /\ [][NextRole]_vars

\* ---------------------------------------------------- metadata accessors
\* getConfig: what the presenter keeps of the configuration zettel
getConfig(m) == [author |-> m.author]
\* Faulty variant of Copyright: the configuration zettel's copyright is the
\* default.
CopyrightWithDefault ==
    IF sxMeta.copyright # "" THEN sxMeta.copyright ELSE config.copyright
Author(cfg) == IF sxMeta.author # "" THEN sxMeta.author ELSE cfg.author
Copyright == sxMeta.copyright
License == sxMeta.license

\* the renderers read the accessors
readAuthor ==
    /\ got' = [key |-> "author", value |-> Author(getConfig(config))]
    /\ UNCHANGED <<setVars, envVars, srcVars, visits, explicit, adds, lastAdd,
                   calls, shown, found, asked, sxMeta, config>>
readCopyright ==
    /\ got' = [key |-> "copyright", value |-> Copyright]
    /\ UNCHANGED <<setVars, envVars, srcVars, visits, explicit, adds, lastAdd,
                   calls, shown, found, asked, sxMeta, config>>
readLicense ==
    /\ got' = [key |-> "license", value |-> License]
    /\ UNCHANGED <<setVars, envVars, srcVars, visits, explicit, adds, lastAdd,
                   calls, shown, found, asked, sxMeta, config>>

\* the values a metadata key may have: missing, or one of two texts
MetaValues == {"", "set", "other"}
\* A slide set made from the metadata of its zettel, beside the metadata of
\* the configuration zettel.
InitMeta ==
    /\ sxMeta \in [author : MetaValues, copyright : MetaValues, license : MetaValues]
    /\ config \in [author : {"", "default"}, copyright : {"", "default"},
                    license : {"", "default"}]
    /\ got = NoValue
    /\ source = "deck"
    /\ heap = <<>>
    /\ seqSlide = <<>>
    /\ setSlide = <<>>
    /\ setImage = <<>>
    /\ isCompleted = FALSE
    /\ hasMermaid = FALSE
    /\ pc = "idle"
    /\ stack = <<>>
    /\ visited = {}
    /\ ceMermaid = FALSE
    /\ todo = <<>>
    /\ store = <<>>
    /\ errZ = {}
    /\ errI = {}
    /\ failures = 0
    /\ fetched = [z \in Zid |-> 0]
    /\ imgFetched = [z \in Zid |-> 0]
    /\ visits = [z \in Zid |-> 0]
    /\ explicit = {}
    /\ adds = 0
    /\ lastAdd = InvalidZID
    /\ calls = 0
    /\ shown = NoResult
    /\ found = NoFound
    /\ asked = NoAnswer
NextMeta ==
    \/ readAuthor
    \/ readCopyright
    \/ readLicense
SpecMeta == InitMeta /\ [][NextMeta]_vars

\* A slide set after AddSlide was called for each identifier of a zettel
\* list of up to MaxDoc entries over two zettel: the first has no role and
\* one child, the second the show role and two children.
DocZettel(zid) ==
    IF zid = 1 THEN Zettel(TRUE, ValueVisibilityPublic, "", 0, 10, "", NoHead)
    ELSE Zettel(TRUE, ValueVisibilityPublic, SlideRoleShow, 0, 0, "", OneHead)
\* the identifiers of zs in the order of their first occurrence
RECURSIVE Distinct(_)
Distinct(zs) ==
    IF zs = <<>> THEN <<>>
    ELSE LET d == Distinct(SubSeq(zs, 1, Len(zs) - 1))
         IN  IF \E i \in 1..Len(d) : d[i] = zs[Len(zs)] THEN d
             ELSE Append(d, zs[Len(zs)])
IndexOf(d, zid) == CHOOSE i \in 1..Len(d) : d[i] = zid
InitFind ==
    \E n \in 0..MaxDoc : \E zs \in [1..n -> DocZids] :
      LET d == Distinct(zs)
          ids == {d[i] : i \in 1..Len(d)}
      IN  /\ source = "deck"
          /\ heap = [i \in 1..Len(d) |-> newSlide(d[i], DocZettel(d[i]))]
          /\ setSlide = [z \in ids |-> IndexOf(d, z)]
          /\ seqSlide = [i \in 1..n |-> IndexOf(d, zs[i])]
          /\ store = [z \in ids |-> DocZettel(z)]
          /\ fetched = [z \in Zid |-> IF z \in ids THEN 1 ELSE 0]
          /\ explicit = ids
          /\ adds = n
          /\ lastAdd = IF n = 0 THEN InvalidZID ELSE zs[n]
          /\ setImage = <<>>
          /\ isCompleted = FALSE
          /\ hasMermaid = FALSE
          /\ pc = "idle"
          /\ stack = <<>>
          /\ visited = {}
          /\ ceMermaid = FALSE
          /\ todo = <<>>
          /\ errZ = {}
          /\ errI = {}
          /\ failures = 0
          /\ imgFetched = [z \in Zid |-> 0]
          /\ visits = [z \in Zid |-> 0]
          /\ calls = 0
          /\ shown = NoResult
          /\ found = NoFound
          /\ asked = NoAnswer
          /\ sxMeta = NoMeta
          /\ config = NoMeta
          /\ got = NoValue
\* The renderers' loop over the document sequence: Slides, then the links
\* of each node.
NextFind ==
    \/ Slides
    \/ rebindLinkZettel
SpecFind == InitFind /\ [][NextFind]_vars

\* ------------------------------------------------------------ helpers
Range(f) == {f[x] : x \in DOMAIN f}
\* the valid targets of the internal links anywhere in a content
RECURSIVE Links(_)
Links(content) ==
    IF content = <<>> THEN {}
    ELSE LET o == Head(content) IN
           (IF o.sym = "LINK-ZETTEL" /\ IsValid(o.zid) THEN {o.zid} ELSE {})
           \cup Links(o.sub) \cup Links(Tail(content))

\* ---------------------------------------------------------- properties

\* C1: Completion is idempotent.  Once the set is completed, a further call
\* of Completion (and anything it would run) fetches nothing and leaves
\* seqSlide, setSlide, setImage and hasMermaid as the first call left them.
IdempotentCompletion ==
    [][(isCompleted /\ (calls' # calls \/ pc # "idle"))
         => UNCHANGED <<heap, seqSlide, setSlide, setImage, hasMermaid,
                        fetched, imgFetched>>]_vars
\* a second call has returned on a set with a discovered slide, an image and
\* a link target that was left out
SecondCompletionDone ==
    /\ calls = 2 /\ pc = "idle" /\ isCompleted
    /\ DOMAIN setSlide # explicit
    /\ setImage # <<>>
    /\ \E z \in DOMAIN store : z \notin DOMAIN setSlide

\* C2: Completion terminates on every content graph, cycles and self-links
\* included, and traverses the content of every slide of the set exactly
\* once, however often its identifier is in seqSlide or on the stack.
ClosureTerminates ==
    /\ [](\A z \in Zid : visits[z] <= 1)
    /\ [][(~isCompleted /\ isCompleted')
            => \A z \in DOMAIN setSlide' : visits'[z] = 1]_vars
    /\ (pc # "idle") ~> (pc = "idle" /\ isCompleted)
\* completed: an identifier twice in seqSlide, and two slides that link to
\* each other
CycleCompleted ==
    /\ isCompleted /\ pc = "idle"
    /\ Len(seqSlide) > Cardinality(Range(seqSlide))
    /\ \E a, b \in DOMAIN setSlide :
         /\ a # b
         /\ b \in Links(heap[setSlide[a]].content)
         /\ a \in Links(heap[setSlide[b]].content)

\* the slides of the set whose content links to z
Linking(z) == {a \in DOMAIN setSlide : z \in Links(heap[setSlide[a]].content)}
\* the source has answered for z with a zettel that visitZettel must not add
NotPublic(z) ==
    z \in DOMAIN store /\ (~store[z].wellformed \/ store[z].vis # ValueVisibilityPublic)

\* C3: a zettel that only Completion came across, through a link, and whose
\* visibility is not "public" (or missing) is in neither seqSlide nor
\* setSlide, however many slides link to it.
VisibilityFilter ==
    \A z \in Zid :
      (z \notin explicit /\ NotPublic(z))
        => /\ z \notin DOMAIN setSlide
           /\ \A i \in 1..Len(seqSlide) : heap[seqSlide[i]].zid # z
\* completed; two slides link to a zettel without visibility, fetched for each
HiddenLinkedTwice ==
    /\ isCompleted /\ pc = "idle"
    /\ \E z \in DOMAIN store :
         /\ z \notin explicit
         /\ store[z].wellformed /\ store[z].vis = ""
         /\ Cardinality(Linking(z)) >= 2
         /\ fetched[z] >= 2

\* every link of every slide of the set has been followed: its target is a
\* slide of the set, or its fetch failed, or the source's answer was refused
Closed ==
    \A a \in DOMAIN setSlide :
      \A t \in Links(heap[setSlide[a]].content) :
        \/ t \in DOMAIN setSlide /\ \E i \in 1..Len(seqSlide) : seqSlide[i] = setSlide[t]
        \/ t \in errZ
        \/ NotPublic(t)
\* C4: when Completion returns, the set is closed under internal links: the
\* target of every valid link of every slide is in setSlide and in seqSlide,
\* unless its fetch failed, it lacks metadata or content, or it is not public.
ClosedUnderLinks == [][(~isCompleted /\ isCompleted') => Closed']_vars
\* completed; a discovered slide links to another discovered slide
TransitiveClosureDone ==
    /\ isCompleted /\ pc = "idle"
    /\ \E d, e \in DOMAIN setSlide \ explicit : d # e /\ d \in Linking(e)

\* C5: a failed fetch inside Completion changes nothing in the set, leaves the
\* failed target out, keeps the worklist and goes on with the traversal; no
\* call of Completion returns without the completed flag, and every call with
\* a failed fetch ends.
FetchFailureNonFatal ==
    /\ [][(pc = "visit" /\ failures' # failures)
            => /\ UNCHANGED <<heap, seqSlide, setSlide, setImage, stack,
                              visited, isCompleted>>
               /\ todo' = Tail(todo)
               /\ pc' \in {"loop", "visit"}
               /\ Head(todo).op = "zettel" => Head(todo).zid \notin DOMAIN setSlide'
               /\ Head(todo).op = "image" => Head(todo).zid \notin DOMAIN setImage']_vars
    /\ [](pc # "panic")
    /\ []((calls > 0 /\ pc = "idle") => isCompleted)
    /\ (pc # "idle" /\ failures > 0) ~> (pc = "idle" /\ isCompleted /\ stack = <<>>)
\* completed although a fetch inside Completion failed, and a slide was
\* still discovered and traversed
FailedFetchSurvived ==
    /\ isCompleted /\ pc = "idle"
    /\ failures > 0
    /\ \E z \in errZ \cup errI : fetched[z] + imgFetched[z] > 0 /\ z \notin explicit
    /\ \E d \in DOMAIN setSlide \ explicit : visits[d] = 1

\* C6: AddSlide for an identifier that is already in setSlide appends the
\* Slide object stored there to seqSlide and leaves setSlide alone, so that
\* every seqSlide entry for the identifier is the one object of setSlide.
DedupOnAddSlide ==
    [][(adds' # adds /\ lastAdd' \in DOMAIN setSlide)
         => /\ seqSlide' = Append(seqSlide, setSlide[lastAdd'])
            /\ setSlide' = setSlide
            /\ heap' = heap
            /\ \A i \in 1..Len(seqSlide') :
                 heap'[seqSlide'[i]].zid = lastAdd'
                   => seqSlide'[i] = setSlide'[lastAdd']]_vars
\* the same identifier was added twice: two entries, one object
AddedTwice ==
    /\ Len(seqSlide) = 2 /\ adds = 2
    /\ heap[seqSlide[1]].zid = heap[seqSlide[2]].zid
    /\ Cardinality(DOMAIN setSlide) = 1
    /\ ~isCompleted

\* ------------------------------------------- properties of Slides
\* a node's children
ChildrenOf(nodes, n) == Chain(nodes, nodes[n].oldest)
\* a slide of that role is part of the rendering for wanted: its role is
\* unset or is the wanted one
HasRole(role, wanted) == role = "" \/ role = wanted
\* the positions of seqSlide whose slide has the role, in order
Positions(role) ==
    SelectSeq([i \in 1..Len(seqSlide) |-> i],
              LAMBDA i : HasRole(heap[seqSlide[i]].role, role))
\* the number of level-1 headings with a title among the blocks
Qualifying(content) ==
    Cardinality({i \in 1..Len(content) :
                   /\ content[i].sym = "HEADING"
                   /\ content[i].level = 1
                   /\ content[i].title # 0})

\* C7: the sequence Slides("show", offset) returns holds no slide whose role
\* is "handout", the sequence Slides("handout", offset) returns none whose
\* role is "show"; the same holds of the children of its nodes.
RoleFiltering ==
    \A j \in 1..Len(Top) :
      \A n \in {Top[j]} \cup Range(ChildrenOf(shown.nodes, Top[j])) :
        /\ shown.role = SlideRoleShow => shown.nodes[n].Slide.role # SlideRoleHandout
        /\ shown.role = SlideRoleHandout => shown.nodes[n].Slide.role # SlideRoleShow
\* a show that left out a handout slide and kept another slide
ShowSkippedHandout ==
    /\ shown.role = SlideRoleShow
    /\ Len(Top) >= 1
    /\ \E i \in 1..Len(seqSlide) : heap[seqSlide[i]].role = SlideRoleHandout

\* C8: in Slides("show", offset) a slide with k level-1 headings that carry a
\* title has k+1 children; the node's SlideNo is its first child's, and its
\* last child's SlideNo is the node's SlideNo + k.
SplitNumbering ==
    shown.role = SlideRoleShow =>
      \A j \in 1..Len(Top) :
        LET n == shown.nodes[Top[j]]
            k == Qualifying(n.Slide.content)
        IN  /\ Len(ChildrenOf(shown.nodes, Top[j])) = k + 1
            /\ shown.nodes[n.oldest].SlideNo = n.SlideNo
            /\ shown.nodes[n.youngest].SlideNo = n.SlideNo + k
\* a show whose second slide has two such headings
ShowWithThreeChildren ==
    /\ shown.role = SlideRoleShow
    /\ Len(Top) = 2
    /\ Qualifying(shown.nodes[Top[2]].Slide.content) = 2
    /\ Qualifying(shown.nodes[Top[1]].Slide.content) = 1

\* C9: every entry of Slides("handout", offset) whose slide also has the show
\* role has the SlideNo, and its last child the SlideNo, that the same
\* seqSlide position gets in Slides("show", offset); a show-only slide before
\* it has advanced the counter by its children without giving an entry.
HandoutMatchesShow ==
    shown.role = SlideRoleHandout =>
      LET show == slidesforShow(SeqSlides, shown.offset)
          showTop == Chain(show.nodes, show.first)
          hPos == Positions(SlideRoleHandout)
          sPos == Positions(SlideRoleShow)
      IN  /\ Len(Top) = Len(hPos)
          /\ Len(showTop) = Len(sPos)
          /\ \A j \in 1..Len(Top) : \A m \in 1..Len(sPos) :
               hPos[j] = sPos[m] =>
                 LET hn == shown.nodes[Top[j]]
                     sn == show.nodes[showTop[m]]
                 IN  /\ hn.SlideNo = sn.SlideNo
                     /\ hn.youngest # 0
                     /\ shown.nodes[hn.youngest].SlideNo = show.nodes[sn.youngest].SlideNo
\* a handout whose only entry follows a show-only slide with three children
HandoutAfterShowOnly ==
    /\ shown.role = SlideRoleHandout
    /\ Len(seqSlide) = 2 /\ Len(Top) = 1
    /\ heap[seqSlide[1]].role = SlideRoleShow
    /\ Qualifying(heap[seqSlide[1]].content) = 2
    /\ heap[seqSlide[2]].role = ""
    /\ shown.nodes[Top[1]].SlideNo = shown.offset + 3

\* C10: Slides("handout", offset) has one entry for each seqSlide position
\* with the handout role, in seqSlide order, numbered offset, offset+1, ...:
\* neither split children nor left-out slides advance Number.
HandoutNumbers ==
    shown.role = SlideRoleHandout =>
      LET hPos == Positions(SlideRoleHandout)
      IN  /\ Len(Top) = Len(hPos)
          /\ \A j \in 1..Len(Top) :
               /\ shown.nodes[Top[j]].Number = shown.offset + j - 1
               /\ shown.nodes[Top[j]].Slide = heap[seqSlide[hPos[j]]]
\* a handout from offset 2 with two entries, the first split into three
HandoutTwoEntries ==
    /\ shown.role = SlideRoleHandout /\ shown.offset = 2
    /\ Len(Top) = 2
    /\ Len(ChildrenOf(shown.nodes, Top[1])) = 3
    /\ shown.nodes[Top[2]].Number = 3

\* the SlideNo of the children of the nodes tops, node by node, child by child
RECURSIVE ChildNos(_, _)
ChildNos(nodes, tops) ==
    IF tops = <<>> THEN <<>>
    ELSE [c \in 1..Len(ChildrenOf(nodes, Head(tops))) |->
            nodes[ChildrenOf(nodes, Head(tops))[c]].SlideNo]
         \o ChildNos(nodes, Tail(tops))

\* C11: in Slides("show", offset) the children of the nodes, taken node by
\* node and child by child, have the SlideNo offset, offset+1, ... without
\* gap or repeat; a node's Number is its first child's SlideNo, and the next
\* node's Number is that Number plus the number of the node's children.
ShowNumbersDense ==
    shown.role = SlideRoleShow =>
      /\ \A i \in 1..Len(ChildNos(shown.nodes, Top)) :
           ChildNos(shown.nodes, Top)[i] = shown.offset + i - 1
      /\ \A j \in 1..Len(Top) :
           /\ shown.nodes[Top[j]].oldest # 0
           /\ shown.nodes[Top[j]].Number
                = shown.nodes[shown.nodes[Top[j]].oldest].SlideNo
           /\ j > 1 => shown.nodes[Top[j]].Number
                        = shown.nodes[Top[j-1]].Number
                          + Len(ChildrenOf(shown.nodes, Top[j-1]))
\* a show from offset 2 of two slides, the first with three children and the
\* second with two
ShowFiveChildren ==
    /\ shown.role = SlideRoleShow /\ shown.offset = 2
    /\ Len(Top) = 2
    /\ Len(ChildrenOf(shown.nodes, Top[1])) = 3
    /\ Len(ChildrenOf(shown.nodes, Top[2])) = 2
    /\ shown.nodes[Top[2]].Number = 5

\* the positions of the document sequence top that hold the slide zid
Holding(nodes, top, zid) == {i \in 1..Len(top) : nodes[top[i]].Slide.zid = zid}
\* the position of the node FindSlide was called on
FromPos(top) == CHOOSE j \in 1..Len(top) : top[j] = found.from
Highest(S) == CHOOSE x \in S : \A y \in S : y <= x
Lowest(S) == CHOOSE x \in S : \A y \in S : x <= y

\* C12: FindSlide(zid) on a node of the document sequence returns the nearest
\* node at or before it whose slide has the identifier; if there is none, the
\* nearest node after it; nil if no node has it.  With the identifier at
\* positions 2 and 5 only and the call on position 7, it returns position 5.
FindSlideNearest ==
    found.from # 0 =>
      LET top == Top
          holding == Holding(shown.nodes, top, found.zid)
          from == FromPos(top)
          before == {i \in holding : i <= from}
      IN  /\ found.res = IF before # {} THEN top[Highest(before)]
                         ELSE IF holding # {} THEN top[Lowest(holding)]
                         ELSE 0
          /\ (holding = {2, 5} /\ from = 7) => found.res = top[5]
\* the call was made on position 7 for the identifier at positions 2 and 5
FoundFromSeven ==
    /\ found.from # 0
    /\ Len(Top) = 7
    /\ FromPos(Top) = 7
    /\ Holding(shown.nodes, Top, found.zid) = {2, 5}
    /\ found.res = Top[5]

\* C13: Completion changes seqSlide only by appending.  A step of Completion
\* leaves seqSlide alone or appends one entry behind the entries it has, which
\* keep their positions; the appended slide's identifier was not in setSlide,
\* was not added by AddSlide and is at no position of seqSlide yet.
CompletionAppendsOnly ==
    [][(pc # "idle" \/ calls' # calls) =>
         \/ seqSlide' = seqSlide
         \/ /\ Len(seqSlide') = Len(seqSlide) + 1
            /\ SubSeq(seqSlide', 1, Len(seqSlide)) = seqSlide
            /\ LET z == heap'[seqSlide'[Len(seqSlide')]].zid
               IN  /\ z \notin DOMAIN setSlide
                   /\ z \notin explicit
                   /\ z \in DOMAIN setSlide'
                   /\ \A i \in 1..Len(seqSlide) : heap[seqSlide[i]].zid # z]_vars
\* completed: two slides were added, the first links to a third, public one,
\* which is the last entry
DiscoveredIsLast ==
    /\ isCompleted /\ pc = "idle"
    /\ Len(seqSlide) = 3
    /\ explicit = {heap[seqSlide[1]].zid, heap[seqSlide[2]].zid}
    /\ heap[seqSlide[1]].zid # heap[seqSlide[2]].zid
    /\ heap[seqSlide[3]].zid \notin explicit
    /\ heap[seqSlide[3]].zid \in Links(heap[seqSlide[1]].content)
    /\ heap[seqSlide[3]].zid \notin Links(heap[seqSlide[2]].content)

\* the end-to-end deck was shown from 1: AddSlide was called for A, without
\* a level-1 heading, and then for B, with two of them
ScenarioShown ==
    /\ shown.role = SlideRoleShow /\ shown.offset = 1
    /\ adds = 2 /\ Len(seqSlide) >= 2 /\ Len(Top) >= 2
    /\ seqSlide[1] # seqSlide[2]
    /\ Cardinality(explicit) = 2
    /\ Qualifying(heap[seqSlide[1]].content) = 0
    /\ Qualifying(heap[seqSlide[2]].content) = 2
\* the SlideNo of the children of the node at position j
ChildNosAt(j) == ChildNos(shown.nodes, <<Top[j]>>)

\* C14 as stated: in the end-to-end deck Slides("show", 1) gives A Number 1
\* and SlideNo 1, and B Number 2 with two children that have SlideNo 2 to 3.
ScenarioTwoChildren ==
    ScenarioShown =>
      /\ shown.nodes[Top[1]].Number = 1 /\ shown.nodes[Top[1]].SlideNo = 1
      /\ shown.nodes[Top[2]].Number = 2
      /\ ChildNosAt(2) = <<2, 3>>
\* C14: in the end-to-end deck Slides("show", 1) gives A Number 1 and SlideNo
\* 1 with one child, and B Number 2 with three children, one for the blocks
\* before the first heading and one for each heading, that have SlideNo 2 to 4.
ScenarioThreeChildren ==
    ScenarioShown =>
      /\ shown.nodes[Top[1]].Slide = heap[seqSlide[1]]
      /\ shown.nodes[Top[1]].Number = 1 /\ shown.nodes[Top[1]].SlideNo = 1
      /\ ChildNosAt(1) = <<1>>
      /\ shown.nodes[Top[2]].Slide = heap[seqSlide[2]]
      /\ shown.nodes[Top[2]].Number = 2 /\ shown.nodes[Top[2]].SlideNo = 2
      /\ ChildNosAt(2) = <<2, 3, 4>>
\* the deck was shown after Completion, which fetched the image and added C
ScenarioCompletedShown ==
    /\ ScenarioShown
    /\ isCompleted
    /\ Len(seqSlide) = 3
    /\ setImage # <<>>
    /\ shown.nodes[shown.nodes[Top[2]].youngest].SlideNo = 4

\* the positions of seqSlide whose slide Completion has added
Discovered == {i \in 1..Len(seqSlide) : heap[seqSlide[i]].zid \notin explicit}
\* the slide at position i of seqSlide is a node of the document sequence
Yielded(i) == \E j \in 1..Len(Top) : shown.nodes[Top[j]].Slide = heap[seqSlide[i]]

Split == {n \in 1..Len(shown.nodes) : shown.nodes[n].oldest # 0}
\* the slides of the children of node n, in order
Kids(n) == [c \in 1..Len(ChildrenOf(shown.nodes, n)) |->
              shown.nodes[ChildrenOf(shown.nodes, n)[c]].Slide]
IsSplitPoint(bn) == bn.sym = "HEADING" /\ bn.level = 1 /\ bn.title # 0

\* C16: SplitChildren yields at least one child; for a content without a
\* level-1 heading that has a title it yields one child, oldest and youngest
\* at once, with the parent's title and all the parent's blocks in order.
SplitAtLeastOne ==
    /\ shown.role = SlideRoleShow => \A j \in 1..Len(Top) : Top[j] \in Split
    /\ \A n \in Split :
         /\ Len(Kids(n)) >= 1
         /\ shown.nodes[n].youngest # 0
         /\ Qualifying(shown.nodes[n].Slide.content) = 0
              => /\ shown.nodes[n].oldest = shown.nodes[n].youngest
                 /\ Len(Kids(n)) = 1
                 /\ Kids(n)[1].title = shown.nodes[n].Slide.title
                 /\ Kids(n)[1].content = shown.nodes[n].Slide.content
\* a slide with a level-2 heading and a level-1 heading without title was
\* split into its one child
SplitWithoutSplitPoint ==
    \E n \in Split :
      /\ Qualifying(shown.nodes[n].Slide.content) = 0
      /\ \E i, k \in 1..Len(shown.nodes[n].Slide.content) :
           /\ shown.nodes[n].Slide.content[i].sym = "HEADING"
           /\ shown.nodes[n].Slide.content[i].level = 2
           /\ shown.nodes[n].Slide.content[k].sym = "HEADING"
           /\ shown.nodes[n].Slide.content[k].level = 1
      /\ Len(Kids(n)) = 1

\* the contents of the slides kids, one behind the other
RECURSIVE Concat(_)
Concat(kids) == IF kids = <<>> THEN <<>> ELSE Head(kids).content \o Concat(Tail(kids))

\* C17: SplitChildren partitions the blocks: the children's contents, one
\* behind the other, are the parent's blocks without the level-1 headings
\* that have a title; the first child has the parent's title, child i+1 the
\* title of the i-th such heading; each child has the parent's identifier,
\* language and role.
SplitPartitions ==
    \A n \in Split :
      LET parent == shown.nodes[n].Slide
          points == SelectSeq(parent.content, IsSplitPoint)
          kids == Kids(n)
      IN  /\ Concat(kids) = SelectSeq(parent.content, LAMBDA bn : ~IsSplitPoint(bn))
          /\ Len(kids) = Len(points) + 1
          /\ kids[1].title = parent.title
          /\ \A i \in 1..Len(points) : kids[i+1].title = points[i].title
          /\ \A c \in 1..Len(kids) :
               /\ kids[c].zid = parent.zid
               /\ kids[c].lang = parent.lang
               /\ kids[c].role = parent.role
\* a slide was split at two headings and a level-3 heading stayed in a
\* child; another slide, with a language, was split at one heading
SplitInThree ==
    /\ \E n \in Split :
         /\ Len(Kids(n)) = 3
         /\ \E i \in 1..Len(Kids(n)[2].content) :
              Kids(n)[2].content[i].sym = "HEADING"
    /\ \E n \in Split :
         /\ Len(Kids(n)) = 2
         /\ Kids(n)[2].lang = "en"

\* C18: HasSlideRole(target) is true exactly when the target is empty, or the
\* slide's role is unset, or the slide's role is the target.
HasSlideRoleTable ==
    asked.done =>
      (asked.res <=> (asked.sr = "" \/ asked.role = "" \/ asked.role = asked.sr))
\* a handout slide was asked for the show role, and the answer was no
HandoutAskedForShow ==
    /\ asked.done
    /\ asked.role = SlideRoleHandout /\ asked.sr = SlideRoleShow
    /\ ~asked.res

\* the slides of the set whose content embeds the image z, each with the
\* places of the embeds in its traversal
EmbedsOf(z) ==
    UNION {{<<a, i>> : i \in {k \in 1..Len(visitContent(heap[setSlide[a]].content)) :
                                /\ visitContent(heap[setSlide[a]].content)[k].op = "image"
                                /\ visitContent(heap[setSlide[a]].content)[k].zid = z}} :
           a \in DOMAIN setSlide}

\* C19: inside Completion an embed of an image that is in setImage fetches
\* nothing and leaves setImage alone; no step replaces or removes an entry
\* of setImage.
ImageFetchedOnce ==
    [][/\ (pc = "visit" /\ Head(todo).op = "image"
                        /\ Head(todo).zid \in DOMAIN setImage)
          => /\ imgFetched' = imgFetched
             /\ setImage' = setImage
       /\ \A z \in DOMAIN setImage :
            z \in DOMAIN setImage' /\ setImage'[z] = setImage[z]]_vars
\* completed: two slides embed an image that was fetched once, and a slide
\* embeds an image twice that was fetched once
EmbeddedTwiceFetchedOnce ==
    /\ isCompleted /\ pc = "idle"
    /\ \E z \in DOMAIN setImage :
         /\ imgFetched[z] = 1
         /\ Cardinality({e[1] : e \in EmbedsOf(z)}) >= 2
    /\ \E z \in DOMAIN setImage :
         /\ imgFetched[z] = 1
         /\ \E e, f \in EmbedsOf(z) : e[1] = f[1] /\ e[2] # f[2]

\* a content holds a diagram block with the mermaid syntax attribute
RECURSIVE HasDiagram(_)
HasDiagram(content) ==
    IF content = <<>> THEN FALSE
    ELSE \/ Head(content).sym = "VERBATIM-EVAL" /\ Head(content).syntax = SyntaxMermaid
         \/ HasDiagram(Head(content).sub)
         \/ HasDiagram(Tail(content))

\* C20: when Completion returns, hasMermaid is true exactly when the content
\* of a slide of the set, added or discovered, holds a diagram block with the
\* mermaid syntax attribute; inside Completion the flag of the traversal,
\* once set, stays set.
MermaidFlag ==
    [][/\ (~isCompleted /\ isCompleted')
          => (hasMermaid' <=> \E a \in DOMAIN setSlide' :
                                HasDiagram(heap'[setSlide'[a]].content))
       /\ (ceMermaid /\ pc # "idle") => ceMermaid']_vars
\* completed with the flag set: the only slide with a mermaid block was
\* discovered, and a slide without one was traversed after it
MermaidInDiscovered ==
    /\ isCompleted /\ pc = "idle" /\ hasMermaid
    /\ \A a \in explicit : ~HasDiagram(heap[setSlide[a]].content)
    /\ \E d \in DOMAIN setSlide \ explicit : HasDiagram(heap[setSlide[d]].content)
    /\ Len(seqSlide) >= 2
    /\ ~HasDiagram(heap[seqSlide[2]].content)

\* C21: AddSlide for an identifier that is not in setSlide and whose fetch
\* fails, or whose zettel lacks metadata or content, leaves seqSlide and
\* setSlide as they are and ends like any other call; an AddSlide whose fetch
\* gives a whole zettel appends its slide, whatever was skipped before.
AddSlideSkips ==
    [][(adds' # adds /\ lastAdd' \notin DOMAIN setSlide) =>
         IF failures' # failures \/ ~store'[lastAdd'].wellformed
           THEN /\ UNCHANGED <<heap, seqSlide, setSlide, setImage, isCompleted,
                               hasMermaid>>
                /\ pc' = "idle"
           ELSE /\ seqSlide' = Append(seqSlide, Len(heap) + 1)
                /\ DOMAIN setSlide' = DOMAIN setSlide \cup {lastAdd'}
                /\ setSlide'[lastAdd'] = Len(heap) + 1
                /\ heap'[Len(heap) + 1].zid = lastAdd'
                /\ pc' = "idle"]_vars
\* the first AddSlide was skipped, the second one added its slide
AddedAfterSkip ==
    /\ adds = 2 /\ Len(seqSlide) = 1 /\ pc = "idle" /\ calls = 0
    /\ \/ failures = 1
       \/ \E z \in DOMAIN store : ~store[z].wellformed
    /\ lastAdd = heap[seqSlide[1]].zid

\* the value of the key in the slide set's metadata, else in the metadata
\* of the configuration zettel
WithDefault(key) == IF sxMeta[key] # "" THEN sxMeta[key] ELSE config[key]

\* C22 as stated: each of the author, copyright and license accessors returns
\* the slide set's metadata value when it is not empty, else the value of the
\* configuration.
AccessorsFallBack ==
    got.key # "" => got.value = WithDefault(got.key)
\* C22: the author accessor returns the slide set's metadata value when it is
\* not empty, else the author of the configuration; the copyright and license
\* accessors return the slide set's metadata value, empty when the key is
\* missing, whatever the configuration zettel holds.
OnlyAuthorFallsBack ==
    /\ got.key = "author" => got.value = WithDefault("author")
    /\ got.key = "copyright" => got.value = sxMeta.copyright
    /\ got.key = "license" => got.value = sxMeta.license
\* the copyright was read from a slide set without one, beside a
\* configuration zettel with one
CopyrightReadEmpty ==
    /\ got.key = "copyright" /\ got.value = ""
    /\ sxMeta.copyright = ""
    /\ config.copyright = "default"

\* C23: setSlide is first-fetch-wins.  No step of AddSlide or Completion
\* removes an identifier from setSlide, maps it to another Slide or changes
\* the Slide it maps to.
FirstFetchWins ==
    [][\A z \in DOMAIN setSlide :
         /\ z \in DOMAIN setSlide'
         /\ setSlide'[z] = setSlide[z]
         /\ heap'[setSlide[z]] = heap[setSlide[z]]]_vars
\* completed: a slide links to a slide that AddSlide had put in before, and
\* that was fetched once
LinkedToAdded ==
    /\ isCompleted /\ pc = "idle"
    /\ \E a, b \in explicit :
         /\ a # b
         /\ b \in Links(heap[setSlide[a]].content)
         /\ heap[seqSlide[1]].zid = a
         /\ fetched[b] = 1

\* C24: the fatal branch of Completion is never taken for a slide set built
\* through AddSlide: every identifier on the worklist has an entry in
\* setSlide, so GetSlide finds the slide of every identifier popped.
NoPanic ==
    /\ pc # "panic"
    /\ \A i \in 1..Len(stack) : stack[i] \in DOMAIN setSlide
\* completed: the worklist held an identifier twice and got a discovered one
WorklistDrained ==
    /\ isCompleted /\ pc = "idle" /\ adds = 2
    /\ Len(seqSlide) = 3
    /\ seqSlide[1] = seqSlide[2]
    /\ heap[seqSlide[3]].zid \notin explicit
    /\ visits[heap[seqSlide[3]].zid] = 1

\* the discovered zettel of the content source S that are refused: linked,
\* not added by AddSlide, and not public
Refused(S, expl) ==
    {z \in DOMAIN S \ expl : S[z].wellformed /\ S[z].vis # ValueVisibilityPublic}
\* the content sources that differ from S in nothing but the content of
\* refused zettel
HiddenTwins(S, expl) ==
    {T \in [DOMAIN S -> UNION {Holds(z) : z \in DOMAIN S}] :
       \A z \in DOMAIN S :
         IF z \in Refused(S, expl)
           THEN T[z] \in Holds(z) /\ [T[z] EXCEPT !.content = <<>>]
                                      = [S[z] EXCEPT !.content = <<>>]
           ELSE T[z] = S[z]}
\* Completion on the added slides with any twin of S ends with the given
\* seqSlide, setSlide, setImage and hasMermaid
SameForTwins(S, expl, seq, hp, setS, imgs, merm) ==
    \A T \in HiddenTwins(S, expl) :
      LET zids == [i \in 1..Len(seq) |-> hp[seq[i]].zid]
          r == CompletionRun(T, SelectSeq(zids, LAMBDA z : z \in expl))
      IN  /\ r.ok
          /\ r.seq = zids
          /\ r.slides = DOMAIN setS
          /\ \A z \in r.slides : newSlide(z, T[z]) = hp[setS[z]]
          /\ r.images = imgs
          /\ r.mermaid = merm

Before(p) ==
    {heap[seqSlide[i]].zid : i \in {k \in 1..Len(seqSlide) :
        \A m \in 1..k : heap[seqSlide[m]].zid # p}}

\* C26: Completion traverses the slides AddSlide has put in in the order of
\* their first entry in seqSlide, and depth-first: when it starts on such a
\* slide, every slide with an earlier entry and every slide discovered so
\* far has been traversed.
DepthFirstInOrder ==
    [][\A p \in explicit :
         visits'[p] # visits[p] =>
           /\ \A q \in Before(p) : q \in visited
           /\ \A d \in DOMAIN setSlide \ explicit : d \in visited]_vars
\* completed: the first of two added slides led to a discovered slide, the
\* second one, which it does not link to, was traversed too
SecondAfterDiscovered ==
    /\ isCompleted /\ pc = "idle" /\ adds = 2
    /\ Len(seqSlide) = 3
    /\ seqSlide[1] # seqSlide[2]
    /\ heap[seqSlide[3]].zid \notin explicit
    /\ heap[seqSlide[3]].zid \in Links(heap[seqSlide[1]].content)
    /\ heap[seqSlide[2]].zid \notin Links(heap[seqSlide[1]].content)
    /\ \A i \in 1..3 : visits[heap[seqSlide[i]].zid] = 1

\* C27: the index and the sequence agree.  Every entry of seqSlide is the
\* Slide that setSlide holds for the entry's identifier, and the identifiers
\* of setSlide are the identifiers of the entries of seqSlide.
IndexMatchesSequence ==
    /\ \A i \in 1..Len(seqSlide) :
         /\ heap[seqSlide[i]].zid \in DOMAIN setSlide
         /\ seqSlide[i] = setSlide[heap[seqSlide[i]].zid]
    /\ DOMAIN setSlide = {heap[seqSlide[i]].zid : i \in 1..Len(seqSlide)}
    /\ \A z \in DOMAIN setSlide : heap[setSlide[z]].zid = z
\* a slide was added, Completion discovered a second one, and the first was
\* added again
AddedAgainAfterCompletion ==
    /\ isCompleted /\ pc = "idle" /\ adds = 2
    /\ Len(seqSlide) = 3
    /\ seqSlide[1] = seqSlide[3]
    /\ heap[seqSlide[2]].zid \notin explicit

\* the chain c of slideInfo indices is a doubly-linked list: its first node
\* has no prev, the successor of every node points back to it, and no node
\* occurs twice
WellLinked(nodes, c) ==
    /\ c # <<>> => nodes[c[1]].prev = 0
    /\ \A i \in 1..Len(c) - 1 :
         /\ nodes[c[i]].next = c[i + 1]
         /\ nodes[c[i + 1]].prev = c[i]
    /\ \A i, j \in 1..Len(c) : c[i] = c[j] => i = j
\* the slideInfos reachable from the first node of the last Slides call:
\* the document sequence and the children of its nodes
Reach ==
    Range(Top) \cup UNION {Range(ChildrenOf(shown.nodes, n)) : n \in Range(Top)}
\* C28: the document sequence and every child chain built by Slides are
\* doubly-linked lists: the first node has no prev, n.next.prev = n, no node
\* occurs twice, and LastChild() is the end of the chain from Child().  No
\* slide the role filter skipped is reachable through prev or next.
ListsConsistent ==
    LET nodes == shown.nodes IN
    /\ WellLinked(nodes, Top)
    /\ \A n \in 1..Len(nodes) :
         LET c == ChildrenOf(nodes, n) IN
         /\ WellLinked(nodes, c)
         /\ nodes[n].youngest = IF c = <<>> THEN 0 ELSE c[Len(c)]
    /\ \A n \in Reach :
         /\ HasRole(nodes[n].Slide.role, shown.role)
         /\ nodes[n].prev \in Reach \cup {0}
         /\ nodes[n].next \in Reach \cup {0}
\* a handout whose only node has three children, followed by a skipped slide
\* whose slideInfo has that node as prev
SkippedBehindSplitNode ==
    /\ shown.role = SlideRoleHandout
    /\ Len(Top) = 1
    /\ Len(ChildrenOf(shown.nodes, Top[1])) = 3
    /\ \E m \in 1..Len(shown.nodes) :
         /\ m \notin Reach
         /\ shown.nodes[m].prev = Top[1]
         /\ ~HasRole(shown.nodes[m].Slide.role, SlideRoleHandout)

NoFetchOfKnownSlide ==
    /\ [][\A z \in DOMAIN fetched :
            fetched'[z] # fetched[z] => z \notin DOMAIN setSlide]_vars
    /\ [](\A z \in DOMAIN setSlide :
            /\ fetched[z] >= 1
            /\ (z \notin errZ /\ IsPublic(store[z])) => fetched[z] = 1)
\* completed without a failed request: the first slide links to itself and
\* to a zettel that is not public, which Completion requested and refused
\* and AddSlide then requested again and added
RefusedThenAdded ==
    /\ isCompleted /\ pc = "idle" /\ failures = 0
    /\ \E a, z \in explicit :
         /\ heap[seqSlide[1]].zid = a
         /\ {a, z} \subseteq Links(heap[setSlide[a]].content)
         /\ visits[a] = 1 /\ fetched[a] = 1
         /\ ~IsPublic(store[z])
         /\ fetched[z] >= 2
\* C30 as stated: no request for an identifier that has an entry in setSlide,
\* and every slide of the set was requested exactly once
EverySlideFetchedOnce ==
    /\ [][\A z \in DOMAIN fetched :
            fetched'[z] # fetched[z] => z \notin DOMAIN setSlide]_vars
    /\ [](\A z \in DOMAIN setSlide : fetched[z] = 1)

====
